---- MODULE Spec2Model ----
(***************************************************************************)
(* Model of the translation job queue (src/src/services/translationQueue.js)*)
(* together with the controller's cancel endpoint and the question batch   *)
(* executor of TranslationService that the queue drives.                   *)
(*                                                                         *)
(* JavaScript runs handlers to completion: one action below is one         *)
(* synchronous run (an HTTP handler, a timer callback, or the code between *)
(* two awaits of the polling loop / of processItem).                       *)
(* Time is counted in minutes.                                             *)
(*                                                                         *)
(* A job's payload is kept as its sizes (number of questions, number of    *)
(* target languages); createdAt, startedAt and duration, which nothing     *)
(* reads back, are left out of the records.  The batch executor is stepped *)
(* one batch at a time in SpecExec, and one provider call at a time in the *)
(* call by call specifications: there inflight holds the                   *)
(* translateSingleQuestion calls that have not settled, each with its      *)
(* position in the fallback chain (batch, individual text, explanation)    *)
(* and its translateWithLLM retries counter, and clock is Date.now() in    *)
(* seconds as handleRateLimitError and resetRateLimitState read it.        *)
(* The backoff multiplier is kept in thousandths, rounded down.            *)
(* outcome records, for a questions job that has ended, how many questions *)
(* had been translated and how many were sent to the API.  question holds  *)
(* one translateSingleQuestion call language by language: the translations *)
(* passed in, the target languages, and the translations being built.      *)
(*                                                                         *)
(* Specifications:                                                         *)
(*   Spec       the scheduler with the hourly sweep, the clock in hours    *)
(*   SpecLoops  the scheduler with stopProcessing / startProcessing        *)
(*   SpecLive   SpecLoops with the fairness of the polling loop            *)
(*   SpecTimed  retention, the clock minute by minute                      *)
(*   SpecExec   questions jobs of every shape, with throttling             *)
(*   SpecCalls  two jobs of two questions, call by call                    *)
(*   SpecRetry  one job of two questions, up to the sequential retry       *)
(*   SpecChunks one job of five questions (two chunks), with the clock     *)
(*   SpecRate   one job of one question, the rate-limit state and clock    *)
(*   SpecOrder  one job of four questions through parallel, retried and    *)
(*              one-by-one chunks                                          *)
(*   SpecQuestion one translateSingleQuestion call, language by language   *)
(* Spec, SpecLoops, SpecLive and SpecTimed submit single-call jobs and jobs *)
(* of unknown type; SpecExec submits every type.                           *)
(***************************************************************************)
EXTENDS Integers, Sequences, FiniteSets, TLC

\* ---------------------------------------------------------------- bounds
MaxJobs == 3          \* ids handed out by uuidv4 in one run
MaxTime == 125        \* minutes of wall clock explored
MaxLoops == 2         \* polling loops alive at once that are explored
MaxQuestions == 4     \* largest questions payload
MaxLangs == 2         \* largest target language list
MaxRateLimits == 3    \* throttle events explored per job
TimedJobs == 1        \* jobs submitted in the minute-by-minute runs
ExecJobs == 2         \* jobs submitted in the batch executor runs
CallJobs == 2         \* jobs submitted in the call by call runs
PairQuestions == 2    \* questions of a job in the call by call runs
ChunkJobs == 1        \* jobs submitted in the two-chunk runs
CallQuestions == 5    \* questions of a job in the two-chunk runs
RetryJobs == 1        \* jobs submitted in the retry runs
RateJobs == 1         \* jobs submitted in the rate-limit state runs
RateQuestions == 1    \* questions of a job in the rate-limit state runs
MaxThrottles == 12    \* throttle events explored per job, call by call
MaxSeconds == 62      \* seconds of wall clock explored, call by call
OrderJobs == 1        \* jobs submitted in the three-path runs
OrderQuestions == 4   \* questions of a job in the three-path runs
OrderThrottles == 6   \* throttle events explored per job in those runs
MaxTranslations == 2  \* translations a question arrives with, at most
MaxTargets == 2       \* target languages of a call followed by language

\* ------------------------------------------------------- program constants
maxConcurrent == 1
RetentionMinutes == 60
SweepMinutes == 60
MinutesPerItem == 2
initialBatchSize == 3
maxBackoffMultiplier == 8
maxRetries == 3
CoolDownSeconds == 30
QuestionDelay == 5000
BatchDelay == 3000
ThrottledBatchDelay == 10000

\* the ids uuidv4 hands out, in the order it hands them out; 0 is no id
Ids == 1..MaxJobs

\* type strings accepted by addToQueue; "category" stands for the three
\* single-call cases of processItem's switch (category, course, quiz), whose
\* code has the same shape; "other" is any string the switch does not know.
SimpleTypes == {"category"}
Types == SimpleTypes \cup {"questions", "other"}
Priorities == {"normal", "high"}

\* ------------------------------------------------------------ map helpers
EmptyMap == [x \in {} |-> 0]
Put(m, k, v) == [x \in (DOMAIN m) \cup {k} |-> IF x = k THEN v ELSE m[x]]
Del(m, k) == [x \in (DOMAIN m) \ {k} |-> m[x]]

Min(a, b) == IF a < b THEN a ELSE b
Max(a, b) == IF a > b THEN a ELSE b

VARIABLES
  queue,               \* this.queue: sequence of queue items
  processing,          \* this.processing: id -> item
  completed,           \* this.completed: id -> record
  failed,              \* this.failed: id -> record
  isProcessing,        \* this.isProcessing
  currentlyProcessing, \* this.currentlyProcessing
  loops,               \* number of startProcessing coroutines alive
  service,             \* id -> the TranslationService call in flight for it
  now,                 \* Date.now(), minutes
  nextSweep,           \* next firing of the setInterval(cleanup) timer
  nextId,              \* ids handed out so far + 1 (uuidv4 is fresh)
  inflight,            \* translateSingleQuestion calls that have not settled
  clock,               \* Date.now(), seconds, as the service reads it
  throttled,           \* history: id -> the throttle events of the job
  outcome,             \* history: id -> what translateQuestions had produced
                       \*   and handed on when it ended
  question,            \* a translateSingleQuestion call, language by language
  admitted,            \* history: id -> number of processItem(id) calls
  doneAt,              \* history: id -> completedAt/failedAt, -1 before
  removed,             \* history: id -> "no", "cancelled" or "purged"
  last                 \* the last call and what it returned

vars == <<queue, processing, completed, failed, isProcessing,
          currentlyProcessing, loops, service, now, nextSweep, nextId,
          inflight, clock, throttled, outcome, question, admitted, doneAt,
          removed, last>>

\* what only the call by call steps of a TranslationService change
callVars == <<inflight, clock, throttled, outcome, question>>

\* ------------------------------------------------------------- pure parts
\* Math.round(x / y * 100) for naturals, y > 0
RoundPct(x, y) == (200 * x + y) \div (2 * y)

\* mutant of Percentage: the quotient is truncated instead of rounded
Percentage_Truncates(current, total) ==
  IF total > 0 THEN (100 * current) \div total ELSE 0

Percentage(current, total) == IF total > 0 THEN RoundPct(current, total) ELSE 0

estimateTotal(type, data) ==
  CASE type \in SimpleTypes -> 2
    [] type = "questions" -> data.questions * data.targetLanguages
    [] OTHER -> 1

\* index of queueId in q, 0-based, -1 when absent (Array.findIndex)
findIndex(q, queueId) ==
  IF \E k \in 1..Len(q) : q[k].id = queueId
  THEN (CHOOSE k \in 1..Len(q) :
          q[k].id = queueId /\ \A j \in 1..(k - 1) : q[j].id # queueId) - 1
  ELSE -1

getQueuePosition(queueId) == findIndex(queue, queueId) + 1

\* mutant of splice1: the element after the one asked for is removed (or,
\* for the last, the one before it)
splice1_OffByOne(q, index) ==
  [k \in 1..(Len(q) - 1) |->
     IF index + 1 < Len(q)
     THEN (IF k <= index + 1 THEN q[k] ELSE q[k + 1])
     ELSE (IF k < index THEN q[k] ELSE q[k + 1])]

\* Array.splice(index, 1) with a 0-based index
splice1(q, index) ==
  [k \in 1..(Len(q) - 1) |-> IF k <= index THEN q[k] ELSE q[k + 1]]

\* updateEstimatedTimes at time t
updateEstimatedTimes(q, t) ==
  [k \in 1..Len(q) |->
     [q[k] EXCEPT !.estimatedStartTime = t + (k - 1) * MinutesPerItem]]

\* mutant of enqueue: every job is appended, whatever its priority
enqueue_AlwaysPush(q, item, priority) == Append(q, item)

\* mutant of enqueue: a high priority job is put behind the head of the queue
enqueue_BehindHead(q, item, priority) ==
  IF priority = "high" /\ Len(q) > 0
  THEN <<Head(q), item>> \o Tail(q)
  ELSE IF priority = "high" THEN <<item>> ELSE Append(q, item)

\* insertion of addToQueue
enqueue(q, item, priority) ==
  IF priority = "high" THEN <<item>> \o q ELSE Append(q, item)

\* getStatus: the status string, "null" for not found
getStatus(queueId) ==
  IF queueId \in DOMAIN processing THEN "processing"
  ELSE IF queueId \in DOMAIN completed THEN "completed"
  ELSE IF queueId \in DOMAIN failed THEN "failed"
  ELSE IF findIndex(queue, queueId) # -1 THEN "queued"
  ELSE "null"

\* stats of getQueueStatus
getQueueStatus ==
  [queued |-> Len(queue), processing |-> Cardinality(DOMAIN processing),
   completed |-> Cardinality(DOMAIN completed),
   failed |-> Cardinality(DOMAIN failed)]

QueueIds(q) == {q[k].id : k \in 1..Len(q)}

\* what `last` holds after a step that is not a call of the queue's interface
NoCall == [op |-> "none", id |-> 0, arg |-> "none", ret |-> "none"]

\* outcome of a job whose translateQuestions call has not ended:
\*   translated  translatedQuestions.length when the call ended
\*   sent        the questions handed to writeQuestionsToFile and to the
\*               update-quiz-questions posts
NoOutcome == [translated |-> -1, sent |-> -1]

\* no translateSingleQuestion call is followed language by language
NoQuestion == [path |-> "none", state |-> "none"]

\* ------------------------------------------------------------------ Init
\* the state the constructor leaves: empty stores, the cleanup timer armed,
\* and startProcessing run up to its first sleep (queue empty: no admission)
Init ==
  /\ queue = <<>>
  /\ processing = EmptyMap
  /\ completed = EmptyMap
  /\ failed = EmptyMap
  /\ isProcessing = TRUE
  /\ currentlyProcessing = 0
  /\ loops = 1
  /\ service = EmptyMap
  /\ now = 0
  /\ nextSweep = SweepMinutes
  /\ nextId = 1
  /\ inflight = {}
  /\ clock = 0
  /\ throttled = [id \in Ids |-> [count |-> 0, at |-> -1, exhausted |-> FALSE]]
  /\ outcome = [id \in Ids |-> NoOutcome]
  /\ question = NoQuestion
  /\ admitted = [id \in Ids |-> 0]
  /\ doneAt = [id \in Ids |-> -1]
  /\ removed = [id \in Ids |-> "no"]
  /\ last = NoCall

\* --------------------------------------------------------------- records
NewItem(queueId, type, data, priority, q, t) ==
  [id |-> queueId, type |-> type, data |-> data, priority |-> priority,
   status |-> "queued",
   estimatedStartTime |-> t + Len(q) * MinutesPerItem,
   progress |-> [current |-> 0, total |-> estimateTotal(type, data),
                 percentage |-> 0, message |-> "Waiting in queue..."]]

\* the updateProgress callback of processItem, applied to a processing item
updateProgress(item, current, total, message) ==
  [item EXCEPT !.progress = [current |-> current, total |-> total,
                             percentage |-> Percentage(current, total),
                             message |-> message]]

CompletedRecord(item, result, t) ==
  [id |-> item.id, type |-> item.type, status |-> "completed",
   result |-> result, completedAt |-> t]

FailedRecord(item, error, t) ==
  [id |-> item.id, type |-> item.type, status |-> "failed",
   error |-> error, failedAt |-> t]

\* ------------------------------------------------------ rate-limit state
\* backoffMultiplier is kept in thousandths, rounded down (1.5 and 0.8 are
\* not integers): Milli(1) is the multiplier 1
Milli(x) == 1000 * x

\* rateLimitState of a TranslationService the constructor has just built;
\* lastRateLimitTime -1 is null
NewRateLimitState ==
  [isRateLimited |-> FALSE, rateLimitCount |-> 0,
   lastRateLimitTime |-> -1, backoffMultiplier |-> Milli(1)]

\* mutant of handleRateLimitError: the multiplier is not capped
handleRateLimitError_NoCap(rl, t) ==
  [rl EXCEPT !.isRateLimited = TRUE,
             !.rateLimitCount = @ + 1,
             !.lastRateLimitTime = t,
             !.backoffMultiplier = (@ * 3) \div 2]

\* mutant of handleRateLimitError: the event is not counted
handleRateLimitError_NoCount(rl, t) ==
  [rl EXCEPT !.isRateLimited = TRUE,
             !.lastRateLimitTime = t,
             !.backoffMultiplier =
                Min((@ * 3) \div 2, Milli(maxBackoffMultiplier))]

\* the assignments of handleRateLimitError at time t (its sleep is the
\* caller's wait)
handleRateLimitError(rl, t) ==
  [rl EXCEPT !.isRateLimited = TRUE,
             !.rateLimitCount = @ + 1,
             !.lastRateLimitTime = t,
             !.backoffMultiplier =
                Min((@ * 3) \div 2, Milli(maxBackoffMultiplier))]

\* mutant of resetRateLimitState: the flag is cleared by any success
resetRateLimitState_NoCoolDown(rl, t) ==
  [rl EXCEPT !.backoffMultiplier =
                IF @ > Milli(1) THEN Max(Milli(1), (@ * 4) \div 5) ELSE @,
             !.isRateLimited = FALSE]

\* resetRateLimitState at time t
resetRateLimitState(rl, t) ==
  [rl EXCEPT !.backoffMultiplier =
                IF @ > Milli(1) THEN Max(Milli(1), (@ * 4) \div 5) ELSE @,
             !.isRateLimited =
                IF @ /\ t - rl.lastRateLimitTime > CoolDownSeconds
                THEN FALSE ELSE @]

\* the two messages translateWithLLM throws with, and isRateLimitError on
\* them ('... due to rate limiting' contains 'rate limit')
RateLimitMessage == "Failed to translate after 3 retries due to rate limiting"
OtherMessage == "Failed to translate with LLM"
isRateLimitError(message) == message = RateLimitMessage

\* -------------------------------------------- processQuestionsInBatches
\* the batch size processQuestionsInBatches starts from
startBatchSize(rl) ==
  IF rl.isRateLimited \/ rl.rateLimitCount > 0 THEN 1 ELSE initialBatchSize

\* the "Adjust batch size dynamically" statement at the end of the loop body
adjustBatchSize(size, rl) ==
  IF ~rl.isRateLimited /\ rl.rateLimitCount = 0 /\ size < initialBatchSize
  THEN Min(size + 1, initialBatchSize)
  ELSE size

\* the question numbers (1-based) of questionsData.slice(i, i + size)
ChunkOf(s, nq) == (s.i + 1)..Min(s.i + s.currentBatchSize, nq)

\* the same in the order of the slice, as the results Promise.all gives
BatchResults(s, nq) ==
  [k \in 1..Cardinality(ChunkOf(s, nq)) |-> s.i + k]

\* A translateSingleQuestion call that has just been dispatched, for a job
\* with one target language and questions whose options are codes (which the
\* translation keeps): translateToLanguage makes one provider call with the
\* batch method and, when that fails, two with the individual method (the
\* question text and the explanation).
\*   attempt  the branch of processQuestionsInBatches that dispatched it
\*   fanout   it took the Promise.all branch over the languages and has not
\*            yet entered that branch's catch
\*   method   the provider call it awaits: "batch", "text" or "explanation"
\*   retries  the retries counter of that translateWithLLM call
NewCall(id, q, attempt, rl) ==
  [job |-> id, q |-> q, attempt |-> attempt,
   fanout |-> ~(rl.isRateLimited \/ rl.rateLimitCount > 2),
   method |-> "batch", retries |-> 0]

\* mutant of startChunk: the throttled flag is not looked at
startChunk_AlwaysParallel(id, s, nq) ==
  [service |-> [s EXCEPT !.mode = "parallel", !.cur = 0, !.resolved = {},
                         !.wait = 0],
   calls |-> {NewCall(id, q, "parallel", s.rateLimitState) : q \in ChunkOf(s, nq)}]

\* the loop body from its top to the first await: the branch taken for the
\* chunk at s.i and the calls dispatched; the service record that results
startChunk(id, s, nq) ==
  IF s.rateLimitState.isRateLimited
  THEN [service |-> [s EXCEPT !.mode = "sequential", !.cur = s.i + 1,
                              !.resolved = {}, !.wait = 0],
        calls |-> {NewCall(id, s.i + 1, "sequential", s.rateLimitState)}]
  ELSE [service |-> [s EXCEPT !.mode = "parallel", !.cur = 0,
                              !.resolved = {}, !.wait = 0],
        calls |-> {NewCall(id, q, "parallel", s.rateLimitState) :
                     q \in ChunkOf(s, nq)}]

\* new TranslationService() and the locals of the call processItem makes on
\* it, before the loop over the batches (translatedQuestions holds the
\* numbers of the questions pushed, translated their count):
\*   mode      the branch the current chunk runs in ("none" outside a chunk,
\*             "pause" in the delay between two batches)
\*   cur       the question a sequential branch is translating
\*   resolved  the questions of a parallel chunk whose promise has resolved
\*   wait      the milliseconds of the sleep the executor is in, 0 for none
BaseService(item) ==
  [phase |-> IF item.type = "questions" THEN "batches" ELSE "call",
   rateLimitState |-> NewRateLimitState,
   i |-> 0, currentBatchSize |-> startBatchSize(NewRateLimitState),
   completedOperations |-> 0, translated |-> 0, translatedQuestions |-> <<>>,
   mode |-> "none", cur |-> 0, resolved |-> {}, wait |-> 0]

\* the same up to the call's first await: a questions job has dispatched its
\* first chunk
NewService(item) ==
  IF item.type = "questions"
  THEN startChunk(item.id, BaseService(item), item.data.questions).service
  ELSE BaseService(item)

\* the calls that first chunk dispatches
FirstCalls(item) ==
  IF item.type = "questions"
  THEN startChunk(item.id, BaseService(item), item.data.questions).calls
  ELSE {}

\* ------------------------------------------------------------ addToQueue
AddToQueue(type, data, priority) ==
  /\ nextId \in Ids
  /\ LET item == NewItem(nextId, type, data, priority, queue, now)
     IN queue' = updateEstimatedTimes(enqueue(queue, item, priority), now)
  /\ nextId' = nextId + 1
  /\ last' = [op |-> "addToQueue", id |-> nextId, arg |-> priority, ret |-> "id"]
  /\ UNCHANGED <<callVars, processing, completed, failed, isProcessing,
                 currentlyProcessing, loops, service, now, nextSweep,
                 admitted, doneAt, removed>>

\* mutant of processItem: the throw of an unknown type leaves the function
\* without running the finally block
processItem_UnknownSkipsFinally(item, q) ==
  LET started == [item EXCEPT !.status = "processing",
                              !.progress.message = "Starting translation..."]
  IN /\ admitted' = [admitted EXCEPT ![item.id] = @ + 1]
     /\ completed' = completed
     /\ IF item.type \in SimpleTypes
        THEN /\ processing' = Put(processing, item.id,
                    updateProgress(started, 0, 2, "Translating category..."))
             /\ currentlyProcessing' = currentlyProcessing + 1
             /\ service' = Put(service, item.id, NewService(item))
             /\ UNCHANGED <<failed, doneAt>>
             /\ queue' = q
        ELSE IF item.type = "questions"
        THEN /\ processing' = Put(processing, item.id,
                    updateProgress(started, 0,
                       item.data.questions * item.data.targetLanguages,
                       "Translating questions..."))
             /\ currentlyProcessing' = currentlyProcessing + 1
             /\ service' = Put(service, item.id, NewService(item))
             /\ UNCHANGED <<failed, doneAt>>
             /\ queue' = q
        ELSE /\ processing' = Del(Put(processing, item.id, started), item.id)
             /\ failed' = Put(failed, item.id,
                              FailedRecord(item, "Unknown translation type", now))
             /\ doneAt' = [doneAt EXCEPT ![item.id] = now]
             /\ currentlyProcessing' = currentlyProcessing + 1
             /\ service' = service
             /\ queue' = updateEstimatedTimes(q, now)

\* ----------------------------------------------------------- processItem
\* processItem(item) from its entry to its first await, called with the
\* queue q that is left after the shift.  An unknown type throws inside the
\* try before any await, so catch and finally run in the same step.
processItem(item, q) ==
  LET started == [item EXCEPT !.status = "processing",
                              !.progress.message = "Starting translation..."]
  IN /\ admitted' = [admitted EXCEPT ![item.id] = @ + 1]
     /\ completed' = completed
     /\ IF item.type \in SimpleTypes
        THEN /\ processing' = Put(processing, item.id,
                    updateProgress(started, 0, 2, "Translating category..."))
             /\ currentlyProcessing' = currentlyProcessing + 1
             /\ service' = Put(service, item.id, NewService(item))
             /\ UNCHANGED <<failed, doneAt>>
             /\ queue' = q
        ELSE IF item.type = "questions"
        THEN /\ processing' = Put(processing, item.id,
                    updateProgress(started, 0,
                       item.data.questions * item.data.targetLanguages,
                       "Translating questions..."))
             /\ currentlyProcessing' = currentlyProcessing + 1
             /\ service' = Put(service, item.id, NewService(item))
             /\ UNCHANGED <<failed, doneAt>>
             /\ queue' = q
        ELSE /\ processing' = Del(Put(processing, item.id, started), item.id)
             /\ failed' = Put(failed, item.id,
                              FailedRecord(item, "Unknown translation type", now))
             /\ doneAt' = [doneAt EXCEPT ![item.id] = now]
             /\ currentlyProcessing' = (currentlyProcessing + 1) - 1
             /\ service' = service
             /\ queue' = updateEstimatedTimes(q, now)

\* mutant of CanAdmit: the capacity test is left out
CanAdmit_NoCapacity == Len(queue) > 0

\* one iteration of the while loop of startProcessing that admits a job
\* (an iteration that admits nothing changes nothing: a stuttering step)
CanAdmit == currentlyProcessing < maxConcurrent /\ Len(queue) > 0

Poll ==
  /\ loops > 0
  /\ isProcessing
  /\ CanAdmit
  /\ processItem(Head(queue), Tail(queue))
  /\ last' = NoCall
  /\ UNCHANGED <<callVars, isProcessing, loops, now, nextSweep, nextId, removed>>

\* a loop that wakes from its sleep and finds isProcessing false returns
LoopExit ==
  /\ loops > 0
  /\ ~isProcessing
  /\ loops' = loops - 1
  /\ last' = NoCall
  /\ UNCHANGED <<callVars, queue, processing, completed, failed, isProcessing,
                 currentlyProcessing, service, now, nextSweep, nextId,
                 admitted, doneAt, removed>>

\* startProcessing called while stopped: a new loop, run to its first sleep
StartProcessing ==
  /\ ~isProcessing
  /\ loops < MaxLoops
  /\ isProcessing' = TRUE
  /\ loops' = loops + 1
  /\ IF CanAdmit
     THEN processItem(Head(queue), Tail(queue))
     ELSE UNCHANGED <<queue, processing, completed, failed,
                      currentlyProcessing, service, admitted, doneAt>>
  /\ last' = NoCall
  /\ UNCHANGED <<callVars, now, nextSweep, nextId, removed>>

StopProcessing ==
  /\ isProcessing
  /\ isProcessing' = FALSE
  /\ last' = NoCall
  /\ UNCHANGED <<callVars, queue, processing, completed, failed, currentlyProcessing,
                 loops, service, now, nextSweep, nextId, admitted, doneAt, removed>>

\* ------------------------------------------------- processItem, the finish
\* mutant of Complete: the record is stored as completed but never deleted
\* from the processing store
Complete_KeepsProcessing(id, result) ==
  /\ processing' = processing
  /\ completed' = Put(completed, id, CompletedRecord(processing[id], result, now))
  /\ currentlyProcessing' = currentlyProcessing - 1
  /\ queue' = updateEstimatedTimes(queue, now)
  /\ service' = Del(service, id)
  /\ doneAt' = [doneAt EXCEPT ![id] = now]
  /\ last' = [op |-> "finish", id |-> id, arg |-> "none", ret |-> "completed"]
  /\ UNCHANGED <<failed, isProcessing, loops, now, nextSweep, nextId,
                 admitted, removed>>

\* "Mark as completed" followed by the finally block
Complete(id, result) ==
  /\ processing' = Del(processing, id)
  /\ completed' = Put(completed, id, CompletedRecord(processing[id], result, now))
  /\ currentlyProcessing' = currentlyProcessing - 1
  /\ queue' = updateEstimatedTimes(queue, now)
  /\ service' = Del(service, id)
  /\ doneAt' = [doneAt EXCEPT ![id] = now]
  /\ last' = [op |-> "finish", id |-> id, arg |-> "none", ret |-> "completed"]
  /\ UNCHANGED <<failed, isProcessing, loops, now, nextSweep, nextId,
                 admitted, removed>>

\* mutant of Fail: the counter is not decremented when a job fails
Fail_NoDecrement(id, error) ==
  /\ processing' = Del(processing, id)
  /\ failed' = Put(failed, id, FailedRecord(processing[id], error, now))
  /\ currentlyProcessing' = currentlyProcessing
  /\ queue' = updateEstimatedTimes(queue, now)
  /\ service' = Del(service, id)
  /\ doneAt' = [doneAt EXCEPT ![id] = now]
  /\ last' = [op |-> "finish", id |-> id, arg |-> "none", ret |-> "failed"]
  /\ UNCHANGED <<completed, isProcessing, loops, now, nextSweep, nextId,
                 admitted, removed>>

\* mutant of Fail: a failed job is put back at the end of the queue
Fail_Requeues(id, error) ==
  /\ processing' = Del(processing, id)
  /\ failed' = failed
  /\ currentlyProcessing' = currentlyProcessing - 1
  /\ queue' = updateEstimatedTimes(
                 Append(queue, [processing[id] EXCEPT !.status = "queued"]), now)
  /\ service' = Del(service, id)
  /\ doneAt' = doneAt
  /\ last' = [op |-> "finish", id |-> id, arg |-> "none", ret |-> "failed"]
  /\ UNCHANGED <<completed, isProcessing, loops, now, nextSweep, nextId,
                 admitted, removed>>

\* the catch block followed by the finally block
Fail(id, error) ==
  /\ processing' = Del(processing, id)
  /\ failed' = Put(failed, id, FailedRecord(processing[id], error, now))
  /\ currentlyProcessing' = currentlyProcessing - 1
  /\ queue' = updateEstimatedTimes(queue, now)
  /\ service' = Del(service, id)
  /\ doneAt' = [doneAt EXCEPT ![id] = now]
  /\ last' = [op |-> "finish", id |-> id, arg |-> "none", ret |-> "failed"]
  /\ UNCHANGED <<completed, isProcessing, loops, now, nextSweep, nextId,
                 admitted, removed>>

NoResult == [questions |-> 0, rateLimitEncounters |-> 0]

\* translateCategory / translateCourse / translateQuiz resolves or rejects
SimpleCallReturns(id) ==
  /\ id \in DOMAIN processing
  /\ service[id].phase = "call"
  /\ Complete(id, NoResult)
  /\ UNCHANGED callVars

SimpleCallThrows(id) ==
  /\ id \in DOMAIN processing
  /\ service[id].phase = "call"
  /\ Fail(id, "Failed to translate")
  /\ UNCHANGED callVars

\* ------------------------------------------------ processQuestionsInBatches
\* One pass of the for loop over one batch that ends without throwing.
\*   k       throttle events (handleRateLimitError) during the batch
\*   retry   the parallel attempt rejected with a rate limit error and the
\*           batch was redone one question at a time
\*   cleared a call succeeded more than 30 s after the last throttle event,
\*           so resetRateLimitState cleared the flag
\* Nothing in the loop calls the queue's updateProgress.
ChunkDone(id, k, retry, cleared) ==
  /\ id \in DOMAIN processing
  /\ service[id].phase = "batches"
  /\ LET s == service[id]
         nq == processing[id].data.questions
         nl == processing[id].data.targetLanguages
         batch == Min(s.currentBatchSize, nq - s.i)
         rl == [s.rateLimitState EXCEPT
                  !.isRateLimited = (@ \/ k > 0) /\ ~cleared,
                  !.rateLimitCount = @ + k]
         size == adjustBatchSize(s.currentBatchSize, rl)
     IN /\ s.rateLimitState.rateLimitCount + k <= MaxRateLimits
        /\ retry => (~s.rateLimitState.isRateLimited /\ k > 0)
        /\ cleared => (s.rateLimitState.isRateLimited \/ k > 0)
        /\ service' = [service EXCEPT ![id] =
              [s EXCEPT !.rateLimitState = rl,
                        !.translated = s.translated + batch,
                        !.translatedQuestions = @ \o BatchResults(s, nq),
                        !.completedOperations = s.completedOperations + batch * nl,
                        !.currentBatchSize = size,
                        !.i = s.i + size,
                        !.phase = IF s.i + size < nq THEN "batches" ELSE "persist"]]
  /\ last' = NoCall
  /\ UNCHANGED <<callVars, queue, processing, completed, failed, isProcessing,
                 currentlyProcessing, loops, now, nextSweep, nextId,
                 admitted, doneAt, removed>>

\* a work-unit fails for good: the error leaves processQuestionsInBatches
\* and translateQuestions and reaches the catch of processItem
ChunkThrows(id) ==
  /\ id \in DOMAIN processing
  /\ service[id].phase = "batches"
  /\ Fail(id, "Failed to translate quiz questions")
  /\ outcome' = [outcome EXCEPT ![id] =
        [translated |-> service[id].translated, sent |-> 0]]
  /\ UNCHANGED <<inflight, clock, throttled, question>>

\* writeQuestionsToFile and the update-quiz-questions posts succeed
PersistDone(id) ==
  /\ id \in DOMAIN processing
  /\ service[id].phase = "persist"
  /\ Complete(id, [questions |-> service[id].translated,
                   rateLimitEncounters |->
                     service[id].rateLimitState.rateLimitCount])
  /\ outcome' = [outcome EXCEPT ![id] =
        [translated |-> service[id].translated,
         sent |-> service[id].translated]]
  /\ UNCHANGED <<inflight, clock, throttled, question>>

PersistThrows(id) ==
  /\ id \in DOMAIN processing
  /\ service[id].phase = "persist"
  /\ Fail(id, "Failed to update quiz questions")
  /\ outcome' = [outcome EXCEPT ![id] =
        [translated |-> service[id].translated,
         sent |-> service[id].translated]]
  /\ UNCHANGED <<inflight, clock, throttled, question>>

\* ------------------------------------------- the executor, call by call
\* the queue's own state is left as it is
Quiet ==
  UNCHANGED <<queue, processing, completed, failed, isProcessing,
              currentlyProcessing, loops, now, nextSweep, nextId, admitted,
              doneAt, removed>>

\* the end of the loop body (adjust the batch size) and the loop's i +=
\* currentBatchSize and test: the next chunk is started, or the loop ends and
\* translateQuestions goes on to writeQuestionsToFile
nextIteration(id, s, nq) ==
  LET t == [s EXCEPT !.currentBatchSize = adjustBatchSize(@, s.rateLimitState),
                     !.wait = 0]
      u == [t EXCEPT !.i = @ + t.currentBatchSize]
  IN IF u.i < nq
     THEN startChunk(id, u, nq)
     ELSE [service |-> [u EXCEPT !.mode = "none", !.cur = 0,
                                 !.phase = "persist"],
           calls |-> {}]

\* the code after the branch of a chunk: the delay before the next batch
afterChunk(id, s, nq) ==
  IF s.i + s.currentBatchSize < nq
  THEN [service |-> [s EXCEPT !.mode = "pause", !.cur = 0,
                       !.wait = IF s.rateLimitState.isRateLimited
                                THEN ThrottledBatchDelay ELSE BatchDelay],
        calls |-> {}]
  ELSE nextIteration(id, s, nq)

\* a for-of loop over the batch (the rate-limited branch or the retry in the
\* catch) goes on after question s.cur
nextQuestion(id, s, nq) ==
  IF s.cur + 1 \in ChunkOf(s, nq)
  THEN [service |-> [s EXCEPT !.cur = @ + 1, !.wait = 0],
        calls |-> {NewCall(id, s.cur + 1, s.mode, s.rateLimitState)}]
  ELSE afterChunk(id, [s EXCEPT !.wait = 0], nq)

\* the body of such a loop after its translateSingleQuestion has resolved:
\* the rate-limited branch sleeps unless the question is the job's last, the
\* retry always sleeps
afterQuestion(id, s, nq, nl) ==
  LET t == [s EXCEPT !.translated = @ + 1, !.completedOperations = @ + nl,
                     !.translatedQuestions = Append(@, s.cur)]
  IN IF s.mode = "retry" \/ s.cur < nq
     THEN [service |-> [t EXCEPT !.wait = QuestionDelay], calls |-> {}]
     ELSE nextQuestion(id, t, nq)

\* mutant of afterParallel: each result is pushed as soon as its promise
\* resolves
afterParallel_PushesEach(id, s, q, nq, nl) ==
  LET t == [s EXCEPT !.resolved = @ \cup {q},
                     !.translatedQuestions = Append(@, q)]
      n == Cardinality(ChunkOf(s, nq))
  IN IF t.resolved = ChunkOf(s, nq)
     THEN afterChunk(id, [t EXCEPT !.translated = @ + n,
                                   !.completedOperations = @ + n * nl], nq)
     ELSE [service |-> t, calls |-> {}]

\* a promise of the parallel branch resolves; Promise.all resolves with the
\* last of them
afterParallel(id, s, q, nq, nl) ==
  LET t == [s EXCEPT !.resolved = @ \cup {q}]
      n == Cardinality(ChunkOf(s, nq))
  IN IF t.resolved = ChunkOf(s, nq)
     THEN afterChunk(id, [t EXCEPT !.translated = @ + n,
                                   !.translatedQuestions = @ \o BatchResults(s, nq),
                                   !.completedOperations = @ + n * nl], nq)
     ELSE [service |-> t, calls |-> {}]

\* the catch of the parallel branch for a rate limit error: the for-of over
\* the whole batch starts with its first question
retryChunk(id, s, nq) ==
  [service |-> [s EXCEPT !.mode = "retry", !.cur = s.i + 1],
   calls |-> {NewCall(id, s.i + 1, "retry", s.rateLimitState)}]

\* somebody awaits the promise of call c: Promise.all of the chunk is not
\* settled, or c is the call a for-of loop is at
IsLive(c, s, nq) ==
  /\ s.phase = "batches"
  /\ s.mode = c.attempt
  /\ IF c.attempt = "parallel"
     THEN c.q \in ChunkOf(s, nq) \ s.resolved
     ELSE c.q = s.cur /\ s.wait = 0

\* what `last` holds after llmService.processPrompt has returned or thrown
Observed(id, ret) ==
  [op |-> "processPrompt", id |-> id, arg |-> "none", ret |-> ret]

\* the step ends with call c settled, the service record r.service and the
\* calls r.calls dispatched
Continue(c, r, l) ==
  /\ inflight' = (inflight \ {c}) \cup r.calls
  /\ service' = [service EXCEPT ![c.job] = r.service]
  /\ UNCHANGED <<outcome, question>>
  /\ last' = l
  /\ Quiet

\* the step ends with call c going on as d
Proceed(c, d, s, l) ==
  /\ inflight' = (inflight \ {c}) \cup {d}
  /\ service' = [service EXCEPT ![c.job] = s]
  /\ UNCHANGED <<outcome, question>>
  /\ last' = l
  /\ Quiet

\* translateSingleQuestion of call c returns
Resolve(c, s, l) ==
  LET id == c.job
      nq == processing[id].data.questions
      nl == processing[id].data.targetLanguages
  IN IF ~IsLive(c, s, nq)
     THEN Continue(c, [service |-> s, calls |-> {}], l)
     ELSE IF s.mode = "parallel"
     THEN Continue(c, afterParallel(id, s, c.q, nq, nl), l)
     ELSE Continue(c, afterQuestion(id, s, nq, nl), l)

\* mutant of Reject: an error nobody recovers from ends the loop over the
\* batches and what was translated so far is handed on
Reject_PersistsPartial(c, s, message, l) ==
  LET id == c.job
      nq == processing[id].data.questions
  IN IF ~IsLive(c, s, nq)
     THEN Continue(c, [service |-> s, calls |-> {}], l)
     ELSE IF s.mode = "parallel" /\ isRateLimitError(message)
     THEN Continue(c, retryChunk(id, s, nq), l)
     ELSE Continue(c, [service |-> [s EXCEPT !.phase = "persist",
                                             !.mode = "none", !.cur = 0],
                       calls |-> {}], l)

\* translateSingleQuestion of call c throws: Promise.all rejects and the
\* catch of the parallel branch retries the batch for a rate limit error;
\* any other error, and any error in a for-of loop, leaves
\* processQuestionsInBatches and translateQuestions and reaches the catch of
\* processItem, whatever else is in flight
Reject(c, s, message, l) ==
  LET id == c.job
      nq == processing[id].data.questions
  IN IF ~IsLive(c, s, nq)
     THEN Continue(c, [service |-> s, calls |-> {}], l)
     ELSE IF s.mode = "parallel" /\ isRateLimitError(message)
     THEN Continue(c, retryChunk(id, s, nq), l)
     ELSE /\ Fail(id, message)
          /\ inflight' = inflight \ {c}
          /\ outcome' = [outcome EXCEPT ![id] =
                [translated |-> s.translated, sent |-> 0]]
          /\ question' = question

\* mutant of CallThrottled: the while loop of translateWithLLM does not test
\* its retries counter
CallThrottled_Unbounded(c, max) ==
  /\ c \in inflight
  /\ c.job \in DOMAIN service
  /\ service[c.job].rateLimitState.rateLimitCount < max
  /\ Proceed(c, [c EXCEPT !.retries = @ + 1],
             [service[c.job] EXCEPT
                !.rateLimitState = handleRateLimitError(@, clock)],
             Observed(c.job, "429"))
  /\ throttled' = [throttled EXCEPT ![c.job] =
        [count |-> @.count + 1, at |-> clock,
         exhausted |-> @.exhausted \/ c.retries + 1 = maxRetries]]
  /\ UNCHANGED clock

\* llmService.processPrompt of call c throws a rate limit error (429):
\* translateWithLLM counts a retry and handleRateLimitError runs (at most max
\* such events are explored per job)
CallThrottled(c, max) ==
  /\ c \in inflight
  /\ c.job \in DOMAIN service
  /\ c.retries < maxRetries
  /\ service[c.job].rateLimitState.rateLimitCount < max
  /\ Proceed(c, [c EXCEPT !.retries = @ + 1],
             [service[c.job] EXCEPT
                !.rateLimitState = handleRateLimitError(@, clock)],
             Observed(c.job, "429"))
  /\ throttled' = [throttled EXCEPT ![c.job] =
        [count |-> @.count + 1, at |-> clock,
         exhausted |-> @.exhausted \/ c.retries + 1 = maxRetries]]
  /\ UNCHANGED clock

\* the while loop of translateWithLLM ends with retries = maxRetries and it
\* throws RateLimitMessage: the batch method falls back to the individual
\* one; the individual method's error leaves translateToLanguage (its own
\* retry looks for 'Rate limit', which the message does not contain) and the
\* catch of the language Promise.all translates the language again, once
CallExhausted(c) ==
  /\ c \in inflight
  /\ c.job \in DOMAIN service
  /\ c.retries = maxRetries
  /\ IF c.method = "batch"
     THEN Proceed(c, [c EXCEPT !.method = "text", !.retries = 0],
                  service[c.job], NoCall)
     ELSE IF c.fanout
     THEN Proceed(c, [c EXCEPT !.fanout = FALSE, !.method = "batch",
                               !.retries = 0],
                  service[c.job], NoCall)
     ELSE Reject(c, service[c.job], RateLimitMessage, NoCall)
  /\ UNCHANGED <<clock, throttled>>

\* processPrompt returns a usable answer: resetRateLimitState runs, and the
\* call goes on to its next provider call or returns
CallSucceeds(c) ==
  /\ c \in inflight
  /\ c.job \in DOMAIN service
  /\ c.retries < maxRetries
  /\ LET s == [service[c.job] EXCEPT
                 !.rateLimitState = resetRateLimitState(@, clock)]
     IN IF c.method = "text"
        THEN Proceed(c, [c EXCEPT !.method = "explanation", !.retries = 0],
                     s, Observed(c.job, "text"))
        ELSE Resolve(c, s, Observed(c.job, "text"))
  /\ UNCHANGED <<clock, throttled>>

\* processPrompt returns for the batch method, but not with the number of
\* parts asked for: batchTranslateTexts throws and the individual method
\* takes over
CallGarbled(c) ==
  /\ c \in inflight
  /\ c.job \in DOMAIN service
  /\ c.retries < maxRetries
  /\ c.method = "batch"
  /\ Proceed(c, [c EXCEPT !.method = "text", !.retries = 0],
             [service[c.job] EXCEPT
                !.rateLimitState = resetRateLimitState(@, clock)],
             Observed(c.job, "text"))
  /\ UNCHANGED <<clock, throttled>>

\* processPrompt throws an error that is no rate limit error
CallErrors(c) ==
  /\ c \in inflight
  /\ c.job \in DOMAIN service
  /\ c.retries < maxRetries
  /\ IF c.method = "batch"
     THEN Proceed(c, [c EXCEPT !.method = "text", !.retries = 0],
                  service[c.job], Observed(c.job, "error"))
     ELSE Reject(c, service[c.job], OtherMessage, Observed(c.job, "error"))
  /\ UNCHANGED <<clock, throttled>>

\* a call of a job that has already failed settles: nobody awaits it
Drain(c) ==
  /\ c \in inflight
  /\ c.job \notin DOMAIN service
  /\ inflight' = inflight \ {c}
  /\ service' = service
  /\ last' = NoCall
  /\ Quiet
  /\ UNCHANGED <<clock, throttled, outcome, question>>

\* the sleep the executor is in ends
Wake(id) ==
  /\ id \in DOMAIN service
  /\ service[id].phase = "batches"
  /\ service[id].wait > 0
  /\ LET s == service[id]
         nq == processing[id].data.questions
         r == IF s.mode = "pause" THEN nextIteration(id, s, nq)
              ELSE nextQuestion(id, s, nq)
     IN /\ inflight' = inflight \cup r.calls
        /\ service' = [service EXCEPT ![id] = r.service]
  /\ last' = NoCall
  /\ Quiet
  /\ UNCHANGED <<clock, throttled, outcome, question>>

\* d seconds pass
Elapse(d) ==
  /\ clock + d <= MaxSeconds
  /\ clock' = clock + d
  /\ last' = NoCall
  /\ Quiet
  /\ UNCHANGED <<service, inflight, throttled, outcome, question>>

\* Poll with the calls of the admitted job's first chunk kept track of
Admit ==
  /\ loops > 0
  /\ isProcessing
  /\ CanAdmit
  /\ processItem(Head(queue), Tail(queue))
  /\ inflight' = inflight \cup FirstCalls(Head(queue))
  /\ last' = NoCall
  /\ UNCHANGED <<isProcessing, loops, now, nextSweep, nextId, clock,
                 throttled, outcome, question, removed>>

\* mutant of cancelRequest: true is returned but the job stays in the queue
cancelRequest_KeepsJob(q, queueId, t) ==
  LET index == findIndex(q, queueId)
  IN IF index # -1
     THEN [queue |-> updateEstimatedTimes(q, t), ret |-> TRUE]
     ELSE [queue |-> q, ret |-> FALSE]

\* ----------------------------------------------------------------- cancel
\* translationQueue.cancelRequest(queueId) at time t: the queue it leaves
\* and the boolean it returns
cancelRequest(q, queueId, t) ==
  LET index == findIndex(q, queueId)
  IN IF index # -1
     THEN [queue |-> updateEstimatedTimes(splice1(q, index), t), ret |-> TRUE]
     ELSE [queue |-> q, ret |-> FALSE]

\* mutant of cancelResponse: the 404 test is left out
cancelResponse_No404(status, cancelled) ==
  IF status = "processing" THEN "Cannot Cancel"
  ELSE IF status = "completed" \/ status = "failed" THEN "Cannot Cancel"
  ELSE IF cancelled THEN "cancelled"
  ELSE "Cannot Cancel"

\* the response of the controller's DELETE /cancel/:queueId handler
cancelResponse(status, cancelled) ==
  IF status = "null" THEN "Not Found"
  ELSE IF status = "processing" THEN "Cannot Cancel"
  ELSE IF status = "completed" \/ status = "failed" THEN "Cannot Cancel"
  ELSE IF cancelled THEN "cancelled"
  ELSE "Cannot Cancel"

\* the handler: getStatus, then cancelRequest only for a queued job; last.arg
\* is the status it read, last.ret the response it sent
CancelTranslation(queueId) ==
  /\ LET status == getStatus(queueId)
         r == IF status = "queued" THEN cancelRequest(queue, queueId, now)
              ELSE [queue |-> queue, ret |-> FALSE]
     IN /\ queue' = r.queue
        /\ last' = [op |-> "cancelTranslation", id |-> queueId,
                    arg |-> status, ret |-> cancelResponse(status, r.ret)]
        /\ removed' = IF r.ret THEN [removed EXCEPT ![queueId] = "cancelled"]
                      ELSE removed
  /\ UNCHANGED <<callVars, processing, completed, failed, isProcessing,
                 currentlyProcessing, loops, service, now, nextSweep, nextId,
                 admitted, doneAt>>

\* mutant of keepCompleted: a record that is exactly one hour old is deleted
keepCompleted_AtOneHour(m, t) ==
  [id \in {x \in DOMAIN m : ~(m[x].completedAt <= t - RetentionMinutes)} |-> m[id]]

\* ---------------------------------------------------------------- cleanup
\* the records cleanup keeps at time t: it deletes those with at < t - 1h
keepCompleted(m, t) ==
  [id \in {x \in DOMAIN m : ~(m[x].completedAt < t - RetentionMinutes)} |-> m[id]]

keepFailed(m, t) ==
  [id \in {x \in DOMAIN m : ~(m[x].failedAt < t - RetentionMinutes)} |-> m[id]]

\* the setInterval callback, every hour from construction
Cleanup ==
  /\ now = nextSweep
  /\ completed' = keepCompleted(completed, now)
  /\ failed' = keepFailed(failed, now)
  /\ nextSweep' = nextSweep + SweepMinutes
  /\ removed' = [id \in Ids |->
        IF id \in (DOMAIN completed \cup DOMAIN failed)
                   \ (DOMAIN completed' \cup DOMAIN failed')
        THEN "purged" ELSE removed[id]]
  /\ last' = [op |-> "cleanup", id |-> 0, arg |-> "none", ret |-> "none"]
  /\ UNCHANGED <<callVars, queue, processing, isProcessing, currentlyProcessing, loops,
                 service, now, nextId, admitted, doneAt>>

\* d minutes pass; a timer that is due fires before the clock moves on
Tick(d) ==
  /\ now + d <= nextSweep
  /\ now + d <= MaxTime
  /\ now' = now + d
  /\ last' = NoCall
  /\ UNCHANGED <<callVars, queue, processing, completed, failed, isProcessing,
                 currentlyProcessing, loops, service, nextSweep, nextId,
                 admitted, doneAt, removed>>

\* ------------------------- translateSingleQuestion, language by language
\* The language codes, and the values an answer option arrives with: a
\* number, the same number with padding (standardizeQuestionOptions trims it
\* and, as what is left is a number, stores the trimmed value) and a text
\* (which it keeps as it is).  A translation is kept as its language, its
\* question text and one option.
Languages == {"en", "fr", "de"}
OptionValues == {"12", " 12 ", "deux mots"}

Translation(lang, text, option) ==
  [languageCode |-> lang, questionText |-> text, option |-> option]

\* the value standardizeQuestionOptions stores for an option
normalizedOption(value) == IF value = " 12 " THEN "12" ELSE value

\* the test batchTranslateTexts and individualTranslateTexts make on an
\* option before they translate it (numbers and codes are kept)
isNumberOrCode(value) == value = "12"

standardizeQuestionOptions(translations) ==
  [k \in 1..Len(translations) |->
     [translations[k] EXCEPT !.option = normalizedOption(@)]]

\* translations.find(t => t.languageCode === lang) as an index, 0 for
\* undefined
findTranslation(translations, lang) ==
  IF \E k \in 1..Len(translations) : translations[k].languageCode = lang
  THEN CHOOSE k \in 1..Len(translations) :
         /\ translations[k].languageCode = lang
         /\ \A j \in 1..(k - 1) : translations[j].languageCode # lang
  ELSE 0

\* "Find source translation (prefer English)"
sourceTranslation(translations) ==
  IF findTranslation(translations, "en") # 0
  THEN translations[findTranslation(translations, "en")]
  ELSE translations[1]

\* what translateToLanguage resolves with
translateToLanguage(source, lang) ==
  Translation(lang, "translated",
              IF isNumberOrCode(source.option) THEN source.option
              ELSE "translated")

\* the slot of Promise.all's result that is not settled yet
NoTranslation == Translation("none", "none", "none")

\* mutant of languageLoop: the loop does not look for an existing translation
RECURSIVE languageLoop_NoSkip(_, _)
languageLoop_NoSkip(q, k) ==
  IF k > Len(q.targetLanguages)
  THEN [q EXCEPT !.state = "returned", !.i = 0]
  ELSE [q EXCEPT !.i = k, !.called = @ \cup {q.targetLanguages[k]}]

\* The for loop over targetLanguages from index k on, in the one-language-
\* at-a-time branch and in the retry of the catch: a language the question
\* has a translation for gets that translation pushed; the loop stops at the
\* first language without one, translateToLanguage called for it; at its end
\* translateSingleQuestion returns.
RECURSIVE languageLoop(_, _)
languageLoop(q, k) ==
  IF k > Len(q.targetLanguages)
  THEN [q EXCEPT !.state = "returned", !.i = 0]
  ELSE LET lang == q.targetLanguages[k]
           e == findTranslation(q.translations, lang)
       IN IF e # 0
          THEN languageLoop(
                 [q EXCEPT !.newTranslations = Append(@, q.translations[e])],
                 k + 1)
          ELSE [q EXCEPT !.i = k, !.called = @ \cup {lang}]

\* translateSingleQuestion(questionData, targetLanguages) on a service with
\* rate-limit state rl, up to its first await (or its return):
\*   input            questionData.translations as passed
\*   translations     existingTranslations (standardized)
\*   path             the branch taken: "sequential", "parallel", "retry"
\*   state            "running", "returned" or "thrown"
\*   i                the language index a for loop awaits, 0 for none
\*   pending          the indices Promise.all awaits
\*   newTranslations  the array built so far; when returned, the
\*                    translations of the question returned
\*   called           the languages translateToLanguage was called for
translateSingleQuestion(input, targets, rl) ==
  LET st == standardizeQuestionOptions(input)
      q == [input |-> input, translations |-> st, targetLanguages |-> targets,
            path |-> "sequential", state |-> "running", i |-> 0,
            pending |-> {}, newTranslations |-> <<>>, called |-> {}]
      needTranslation ==
        {k \in 1..Len(targets) : findTranslation(st, targets[k]) = 0}
  IN IF rl.isRateLimited \/ rl.rateLimitCount > 2
     THEN languageLoop(q, 1)
     ELSE IF needTranslation = {}
     THEN [q EXCEPT !.path = "parallel", !.state = "returned",
                    !.newTranslations = st]
     ELSE [q EXCEPT !.path = "parallel", !.pending = needTranslation,
                    !.called = {targets[k] : k \in needTranslation},
                    !.newTranslations =
                       [k \in 1..Len(targets) |->
                          IF k \in needTranslation THEN NoTranslation
                          ELSE st[findTranslation(st, targets[k])]]]

\* everything but the question is left as it is
QuestionOnly ==
  /\ last' = NoCall
  /\ Quiet
  /\ UNCHANGED <<service, inflight, clock, throttled, outcome>>

\* processQuestionsInBatches calls translateSingleQuestion
TranslateSingleQuestion(input, targets, rl) ==
  /\ question.state = "none"
  /\ question' = translateSingleQuestion(input, targets, rl)
  /\ QuestionOnly

\* the call awaits translateToLanguage for the language at index k
Awaits(k) ==
  /\ question.state = "running"
  /\ IF question.path = "parallel" THEN k \in question.pending
     ELSE k = question.i

\* translateToLanguage for the language at index k resolves (the 3 s sleep
\* between two languages of a for loop is part of the step)
LanguageResolves(k) ==
  /\ Awaits(k)
  /\ LET t == translateToLanguage(sourceTranslation(question.translations),
                                  question.targetLanguages[k])
         r == [question EXCEPT !.newTranslations[k] = t, !.pending = @ \ {k}]
     IN question' =
          IF question.path = "parallel"
          THEN (IF r.pending = {} THEN [r EXCEPT !.state = "returned"] ELSE r)
          ELSE languageLoop(
                 [question EXCEPT !.newTranslations = Append(@, t)], k + 1)
  /\ QuestionOnly

\* translateToLanguage for the language at index k rejects: the catch around
\* Promise.all starts the retry for a rate limit error; every other error,
\* and every error in a for loop, leaves translateSingleQuestion (what the
\* other languages of Promise.all still do is of no effect)
LanguageRejects(k, message) ==
  /\ Awaits(k)
  /\ question' =
       IF question.path = "parallel" /\ isRateLimitError(message)
       THEN languageLoop([question EXCEPT !.path = "retry", !.pending = {},
                                          !.newTranslations = <<>>], 1)
       ELSE [question EXCEPT !.state = "thrown", !.pending = {}, !.i = 0]
  /\ QuestionOnly

\* ------------------------------------------------------------------ specs
SimpleData == [questions |-> 0, targetLanguages |-> 1]

QuestionShapes ==
  {[questions |-> q, targetLanguages |-> l] :
     q \in 1..MaxQuestions, l \in 1..MaxLangs}

\* the payloads the controllers pass for a type
DataOf(type, shapes) == IF type = "questions" THEN shapes ELSE {SimpleData}

\* a submission by one of the translate endpoints, the n-th at most
Submit(n, types, shapes) ==
  /\ nextId <= n
  /\ \E type \in types, priority \in Priorities :
       \E data \in DataOf(type, shapes) : AddToQueue(type, data, priority)

\* the call processItem awaits for a category, course or quiz job ends
SimpleStep(id) ==
  \/ SimpleCallReturns(id)
  \/ SimpleCallThrows(id)

\* a step of the translateQuestions call processItem awaits; at most maxK
\* throttle events happen within one batch
QuestionsStep(id, maxK) ==
  \/ \E k \in 0..maxK, retry \in BOOLEAN, cleared \in BOOLEAN :
       ChunkDone(id, k, retry, cleared)
  \/ ChunkThrows(id)
  \/ PersistDone(id)
  \/ PersistThrows(id)

Cancel == \E id \in Ids : CancelTranslation(id)

\* job types whose processing never touches the queue between admission and
\* finish in more than one step: a single-call type and an unknown type
QueueTypes == SimpleTypes \cup {"other"}

\* The scheduler as the server runs it: submissions, the polling loop, the
\* jobs, cancellation and the hourly sweep; the clock moves in hours.
Next ==
  \/ Submit(MaxJobs, QueueTypes, {})
  \/ Poll
  \/ \E id \in Ids : SimpleStep(id)
  \/ Cancel
  \/ Cleanup
  \/ Tick(SweepMinutes)

Spec == Init /\ [][Next]_vars

\* The same with stopProcessing and startProcessing called from outside, at
\* one instant (no clock, so no sweep).
NextLoops ==
  \/ Submit(MaxJobs, QueueTypes, {})
  \/ Poll
  \/ LoopExit
  \/ StartProcessing
  \/ StopProcessing
  \/ \E id \in Ids : SimpleStep(id)
  \/ Cancel

SpecLoops == Init /\ [][NextLoops]_vars

\* Retention: a few jobs, the clock moving minute by minute.
NextTimed ==
  \/ Submit(TimedJobs, QueueTypes, {})
  \/ Poll
  \/ \E id \in Ids : SimpleStep(id)
  \/ Cancel
  \/ Cleanup
  \/ Tick(1)

SpecTimed == Init /\ [][NextTimed]_vars

\* The batch executor under the queue: jobs of every type, questions jobs of
\* every shape, with throttling.
NextExec ==
  \/ Submit(ExecJobs, Types, QuestionShapes)
  \/ Poll
  \/ \E id \in Ids : SimpleStep(id)
  \/ \E id \in Ids : QuestionsStep(id, MaxRateLimits)
  \/ Cancel

SpecExec == Init /\ [][NextExec]_vars

\* a questions job of n questions with one target language
QuestionsJob(n) == {[questions |-> n, targetLanguages |-> 1]}

\* a step of a translateSingleQuestion call in flight
CallStep(c, max) ==
  \/ CallThrottled(c, max)
  \/ CallExhausted(c)
  \/ CallSucceeds(c)
  \/ CallGarbled(c)
  \/ CallErrors(c)

\* the end of a questions job once its questions are translated
Persist(id) ==
  \/ PersistDone(id)
  \/ PersistThrows(id)

\* The batch executor call by call, under the queue: jobs of PairQuestions
\* questions (one parallel chunk), every provider call throttled (a few
\* times), failing or answering in any order, within one cool-down period.
NextCalls ==
  \/ Submit(CallJobs, {"questions"}, QuestionsJob(PairQuestions))
  \/ Admit
  \/ \E c \in inflight : CallStep(c, MaxRateLimits)
  \/ \E c \in inflight : Drain(c)
  \/ \E id \in Ids : Persist(id)

SpecCalls == Init /\ [][NextCalls]_vars

\* One such job, throttled often enough for a call to run out of every
\* fallback, within one cool-down period.
NextRetry ==
  \/ Submit(RetryJobs, {"questions"}, QuestionsJob(PairQuestions))
  \/ Admit
  \/ \E c \in inflight : CallStep(c, MaxThrottles)
  \/ \E id \in Ids : Wake(id)
  \/ \E id \in Ids : Persist(id)

SpecRetry == Init /\ [][NextRetry]_vars

\* One job of CallQuestions questions (a parallel chunk, then a second
\* chunk), with a few throttle events and the clock in steps around the
\* cool-down.
NextChunks ==
  \/ Submit(ChunkJobs, {"questions"}, QuestionsJob(CallQuestions))
  \/ Admit
  \/ \E c \in inflight : CallStep(c, MaxRateLimits)
  \/ \E id \in Ids : Wake(id)
  \/ \E id \in Ids : Persist(id)
  \/ \E d \in {CoolDownSeconds, CoolDownSeconds + 1} : Elapse(d)

SpecChunks == Init /\ [][NextChunks]_vars

\* The rate-limit state of one service: a job of one question, whose call
\* goes through every fallback, with the clock.
NextRate ==
  \/ Submit(RateJobs, {"questions"}, QuestionsJob(RateQuestions))
  \/ Admit
  \/ \E c \in inflight : CallStep(c, MaxThrottles)
  \/ \E id \in Ids : Wake(id)
  \/ \E id \in Ids : Persist(id)
  \/ \E d \in {CoolDownSeconds, CoolDownSeconds + 1} : Elapse(d)

SpecRate == Init /\ [][NextRate]_vars

\* One job of OrderQuestions questions with just enough throttle events for
\* one call to run out of every fallback: the first chunk in parallel and
\* retried, the second one question at a time.
NextOrder ==
  \/ Submit(OrderJobs, {"questions"}, QuestionsJob(OrderQuestions))
  \/ Admit
  \/ \E c \in inflight : CallStep(c, OrderThrottles)
  \/ \E id \in Ids : Wake(id)
  \/ \E id \in Ids : Persist(id)

SpecOrder == Init /\ [][NextOrder]_vars

\* the sequences of n elements of S without repetition
Arrangements(S, n) ==
  {f \in [1..n -> S] : \A j, k \in 1..n : f[j] = f[k] => j = k}

\* the translations a question arrives with: one per language, in any order
QuestionInputs ==
  UNION {{[k \in 1..n |-> Translation(langs[k], "given", options[k])] :
            langs \in Arrangements(Languages, n),
            options \in [1..n -> OptionValues]} : n \in 1..MaxTranslations}

TargetLists == UNION {Arrangements(Languages, n) : n \in 1..MaxTargets}

\* the rate-limit state of a fresh service and of one that was throttled
RateLimitStates == {NewRateLimitState, handleRateLimitError(NewRateLimitState, 0)}

\* One translateSingleQuestion call followed language by language: a question
\* with any translations, any target languages, throttled or not, every
\* translateToLanguage call resolving or rejecting.
NextQuestion ==
  \/ \E input \in QuestionInputs, targets \in TargetLists,
        rl \in RateLimitStates : TranslateSingleQuestion(input, targets, rl)
  \/ \E k \in 1..MaxTargets : LanguageResolves(k)
  \/ \E k \in 1..MaxTargets, message \in {RateLimitMessage, OtherMessage} :
       LanguageRejects(k, message)

SpecQuestion == Init /\ [][NextQuestion]_vars

\* SpecLoops with the scheduling the runtime gives: a loop that is awake
\* polls again after its one-second sleep, and (the hypothesis of the claim
\* checked under it) the call an admitted job awaits does end.
Fairness ==
  /\ WF_vars(Poll)
  /\ \A id \in Ids : WF_vars(SimpleStep(id))

SpecLive == Init /\ [][NextLoops]_vars /\ Fairness

\* ================================================================ claims
IdsOf(q) == [k \in 1..Len(q) |-> q[k].id]

\* the sequence q without the entries of queueId
Without(q, queueId) == SelectSeq(q, LAMBDA item : item.id # queueId)

\* position (1-based) of queueId in q, 0 when absent
PositionIn(q, queueId) == findIndex(q, queueId) + 1

\* the step is a call of addToQueue (it is the only one that draws an id)
IsAddToQueue == nextId' = nextId + 1

\* the step is a cancel call that removed the job
IsCancelOf(id) ==
  /\ last'.op = "cancelTranslation"
  /\ last'.id = id
  /\ removed[id] = "no"
  /\ removed'[id] = "cancelled"

\* C1: in every reachable state at most maxConcurrent = 1 job is in the
\* processing store, and every job in it has status 'processing'.
C1_AtMostOneProcessing ==
  /\ Cardinality(DOMAIN processing) <= maxConcurrent
  /\ \A id \in DOMAIN processing : processing[id].status = "processing"

\* a job is processing while another waits and two polling loops are awake
C1_Witness ==
  /\ Cardinality(DOMAIN processing) = 1
  /\ Len(queue) > 0
  /\ loops = 2
  /\ isProcessing

\* C2 (as claimed): addToQueue with priority 'high' places the new job after
\* every already pending high-priority job and before every pending
\* normal-priority job.
C2_HighAfterPendingHigh ==
  [][(IsAddToQueue /\ last'.arg = "high") =>
       LET pos == PositionIn(queue', nextId)
       IN \A k \in 1..Len(queue') :
            /\ (k # pos /\ queue'[k].priority = "high") => k < pos
            /\ (k # pos /\ queue'[k].priority = "normal") => k > pos]_vars

\* C3: addToQueue with priority 'high' puts the new job at position 1, with
\* priority 'normal' at the last position, and the jobs that were pending keep
\* their order.
C3_HeadOrTail ==
  [][IsAddToQueue =>
       /\ Len(queue') = Len(queue) + 1
       /\ PositionIn(queue', nextId) =
            (IF last'.arg = "high" THEN 1 ELSE Len(queue'))
       /\ IdsOf(Without(queue', nextId)) = IdsOf(queue)]_vars

\* A:normal, B:high, C:normal were enqueued and the pending order is B, A, C
C3_Witness ==
  /\ last.op = "addToQueue"
  /\ last.id = 3
  /\ IdsOf(queue) = <<2, 1, 3>>
  /\ queue[1].priority = "high"
  /\ queue[2].priority = "normal"
  /\ queue[3].priority = "normal"

\* C4: a cancel request answers 'cancelled' and removes the job exactly when
\* the job is queued; for a processing, completed or failed job it answers
\* Cannot Cancel and the job stays where it is; for an id in no store it
\* answers Not Found.
C4_CancelIffQueued ==
  [][\A id \in Ids :
       (last'.op = "cancelTranslation" /\ last'.id = id) =>
         LET before == getStatus(id)
             after == getStatus(id)'
         IN /\ (last'.ret = "cancelled") <=> (before = "queued")
            /\ before = "queued" => after = "null"
            /\ before \in {"processing", "completed", "failed"} =>
                 (last'.ret = "Cannot Cancel" /\ after = before)
            /\ before = "null" => (last'.ret = "Not Found" /\ after = "null")]_vars

\* a queued job has just been cancelled while another job is processing
C4_Witness ==
  /\ last.op = "cancelTranslation"
  /\ last.ret = "cancelled"
  /\ getStatus(last.id) = "null"
  /\ DOMAIN processing # {}

\* C5: cancelling a queued job removes exactly that job from the pending
\* sequence: the others keep their order, the jobs ahead keep their position,
\* the jobs behind move up by one, and the other stores are unchanged.
C5_CancelRemovesExactlyOne ==
  [][\A id \in Ids :
       IsCancelOf(id) =>
         /\ IdsOf(queue') = IdsOf(Without(queue, id))
         /\ Len(queue') = Len(queue) - 1
         /\ \A other \in QueueIds(queue) \ {id} :
              PositionIn(queue', other) =
                (IF PositionIn(queue, other) < PositionIn(queue, id)
                 THEN PositionIn(queue, other)
                 ELSE PositionIn(queue, other) - 1)
         /\ processing' = processing
         /\ completed' = completed
         /\ failed' = failed]_vars

\* the 2nd of three pending normal jobs was cancelled: job1, job3 remain and
\* job3 is at position 2
C5_Witness ==
  /\ last.op = "cancelTranslation"
  /\ last.id = 2
  /\ last.ret = "cancelled"
  /\ IdsOf(queue) = <<1, 3>>
  /\ queue[1].priority = "normal"
  /\ queue[2].priority = "normal"
  /\ getQueuePosition(3) = 2

\* C6 (as claimed): a record completed or failed at T is returned by getStatus
\* at T + 59 minutes and is not found at T + 61 minutes.
C6_GoneAfter61Minutes ==
  \A id \in Ids :
    doneAt[id] >= 0 =>
      /\ now = doneAt[id] + 59 => getStatus(id) \in {"completed", "failed"}
      /\ now = doneAt[id] + 61 => getStatus(id) = "null"

\* the number of stores (the pending queue counted per entry) that hold id
Holders(id) ==
  Cardinality({k \in 1..Len(queue) : queue[k].id = id})
  + (IF id \in DOMAIN processing THEN 1 ELSE 0)
  + (IF id \in DOMAIN completed THEN 1 ELSE 0)
  + (IF id \in DOMAIN failed THEN 1 ELSE 0)

\* C7: from its submission until it is cancelled or purged a job is in
\* exactly one of the pending queue, the processing store and the completed
\* and failed stores; before and after it is in none.
C7_ExactlyOneStore ==
  \A id \in Ids :
    Holders(id) = (IF id < nextId /\ removed[id] = "no" THEN 1 ELSE 0)

\* jobs have crossed admission and finish: one is in a terminal store, one is
\* processing and one is still pending
C7_Witness ==
  /\ DOMAIN completed \cup DOMAIN failed # {}
  /\ DOMAIN processing # {}
  /\ Len(queue) > 0

\* C8: while the loop is not stopped, every job that is queued is eventually
\* completed or failed, unless it is cancelled; a failure of another job does
\* not prevent it.
C8_QueuedJobsFinish ==
  \A id \in Ids :
    (getStatus(id) = "queued") ~>
      (getStatus(id) \in {"completed", "failed"}
         \/ removed[id] = "cancelled" \/ ~isProcessing)

\* a job has completed after another one had failed
C8_Witness ==
  /\ last.op = "finish"
  /\ last.ret = "completed"
  /\ DOMAIN failed # {}
  /\ isProcessing

\* the status of a job as a client sees it
Status(id) == IF id >= nextId THEN "unsubmitted" ELSE getStatus(id)

\* C9: a job's status moves only unsubmitted -> queued -> processing ->
\* completed or failed, or queued -> removed by a cancel; a terminal record
\* changes only by being purged.  (A job of unknown type passes through
\* processing inside the admitting step and is seen to go from queued to
\* failed.)  processItem runs at most once per job, and only for a queued job.
C9_StatusTransitions ==
  [][\A id \in Ids :
       LET s == Status(id)
           t == Status(id)'
       IN /\ \/ s = t
             \/ s = "unsubmitted" /\ t = "queued"
             \/ s = "queued" /\ t = "processing"
             \/ s = "queued" /\ t = "failed" /\ admitted'[id] = admitted[id] + 1
             \/ s = "queued" /\ t = "null" /\ last'.op = "cancelTranslation"
                  /\ last'.id = id
             \/ s = "processing" /\ t \in {"completed", "failed"}
             \/ s \in {"completed", "failed"} /\ t = "null"
                  /\ last'.op = "cleanup"
          /\ admitted'[id] # admitted[id] =>
               (s = "queued" /\ admitted[id] = 0 /\ admitted'[id] = 1)]_vars

\* a cancel of a processing job was refused and the job is still processing,
\* while a finished job keeps its record
C9_Witness ==
  /\ last.op = "cancelTranslation"
  /\ last.ret = "Cannot Cancel"
  /\ getStatus(last.id) = "processing"
  /\ DOMAIN completed \cup DOMAIN failed # {}

\* C10 (as claimed): the progress.current that getStatus shows for a
\* processing questions job is the number of work-units finished so far, and
\* the record of a completed questions job shows progress.current =
\* progress.total = |questions| x |targetLanguages|.
C10_ProgressFollowsChunks ==
  /\ \A id \in DOMAIN processing :
       processing[id].type = "questions" =>
         processing[id].progress.current = service[id].completedOperations
  /\ \A id \in DOMAIN completed :
       completed[id].type = "questions" =>
         /\ "progress" \in DOMAIN completed[id]
         /\ completed[id].progress.current = completed[id].progress.total

\* the progress a client sees for a job that is pending or processing
ProgressOf(id) ==
  IF id \in DOMAIN processing THEN processing[id].progress
  ELSE queue[PositionIn(queue, id)].progress

\* p is x / y * 100 rounded to the nearest integer, halves upwards
IsRounded(p, x, y) ==
  /\ 2 * p * y <= 200 * x + y
  /\ 200 * x + y < 2 * (p + 1) * y

\* C13: every progress update of a processing job stores percentage =
\* round(current / total x 100) when total > 0 and 0 when total = 0 (for the
\* arguments the callback is given and for every pair of small arguments), and
\* an update never lowers the percentage the job had.
C13_PercentageRounded ==
  [][/\ \A c \in 0..(MaxQuestions * MaxLangs), t \in 0..(MaxQuestions * MaxLangs) :
          IF t > 0 THEN IsRounded(Percentage(c, t), c, t)
          ELSE Percentage(c, t) = 0
     /\ \A id \in DOMAIN processing' :
          (id \notin DOMAIN processing
             \/ processing'[id].progress # processing[id].progress) =>
            LET p == processing'[id].progress
            IN /\ IF p.total > 0
                  THEN IsRounded(p.percentage, p.current, p.total)
                  ELSE p.percentage = 0
               /\ p.percentage >= ProgressOf(id).percentage]_vars

\* the callback has run for a questions job of 4 questions x 2 languages
C13_Witness ==
  \E id \in DOMAIN processing :
    /\ processing[id].type = "questions"
    /\ processing[id].progress.message = "Translating questions..."
    /\ processing[id].progress.total = 8
    /\ processing[id].progress.percentage = 0

\* C14 (as claimed): immediately after every change of the pending queue
\* (enqueue, admission of the head, cancel) every pending job's
\* estimatedStartTime is the time of the change plus its 1-based position
\* times the fixed job duration of 2 minutes.
C14_EtaAfterQueueChange ==
  [][IdsOf(queue') # IdsOf(queue) =>
       \A k \in 1..Len(queue') :
         queue'[k].estimatedStartTime = now' + k * MinutesPerItem]_vars

\* C17 (as claimed): within one run the batch size stays between 1 and the
\* initial size, is 1 after a chunk in which a throttle event happened, and
\* grows by one after a clean chunk once throttling has cleared.
C17_AdaptiveBatchSize ==
  [][\A id \in DOMAIN service \cap DOMAIN service' :
       service[id].phase = "batches" =>
         LET s == service[id]
             t == service'[id]
         IN /\ 1 <= t.currentBatchSize
            /\ t.currentBatchSize <= initialBatchSize
            /\ t.rateLimitState.rateLimitCount > s.rateLimitState.rateLimitCount
                 => t.currentBatchSize = 1
            /\ (t.i # s.i /\ ~t.rateLimitState.isRateLimited
                  /\ t.rateLimitState.rateLimitCount = s.rateLimitState.rateLimitCount
                  /\ s.currentBatchSize < initialBatchSize)
                 => t.currentBatchSize = s.currentBatchSize + 1]_vars

\* C19 (as claimed): the rate-limit state outlives jobs, so a job that is
\* being processed carries at least the throttle count that every questions
\* job completed before it reported.
C19_StateOutlivesJobs ==
  \A id \in DOMAIN service, e \in DOMAIN completed :
    completed[e].type = "questions" =>
      service[id].rateLimitState.rateLimitCount
        >= completed[e].result.rateLimitEncounters

\* C11: a questions job whose throttle events were all recovered within the
\* retry budget of their call is not failed by a rate limit error, and the
\* throttle count a completed questions job reports is at least the number
\* of throttle events that happened during it.
C11_ThrottledJobCompletes ==
  \A id \in Ids :
    /\ (id \in DOMAIN completed /\ completed[id].type = "questions") =>
         completed[id].result.rateLimitEncounters >= throttled[id].count
    /\ (id \in DOMAIN failed /\ failed[id].type = "questions"
          /\ ~throttled[id].exhausted) =>
         ~isRateLimitError(failed[id].error)

\* a job of 5 questions has completed after 2 throttle events, each
\* recovered by its call's retry
C11_Witness ==
  \E id \in DOMAIN completed :
    /\ completed[id].type = "questions"
    /\ completed[id].result.questions = 5
    /\ throttled[id].count = 2
    /\ ~throttled[id].exhausted
    /\ completed[id].result.rateLimitEncounters >= 2

\* C12: in every reachable rate-limit state the backoff multiplier is at
\* least 1 and at most maxBackoffMultiplier = 8.
C12_MultiplierBounded ==
  \A id \in DOMAIN service :
    /\ Milli(1) <= service[id].rateLimitState.backoffMultiplier
    /\ service[id].rateLimitState.backoffMultiplier
         <= Milli(maxBackoffMultiplier)

\* six throttle events in a row have driven the multiplier to the cap
C12_Witness ==
  \E id \in DOMAIN service :
    /\ service[id].rateLimitState.backoffMultiplier = Milli(maxBackoffMultiplier)
    /\ service[id].rateLimitState.rateLimitCount >= 6

\* C15 (as claimed): no job is completed or failed, and no next job is
\* admitted, while a translation call dispatched for it is still in flight.
C15_NoTerminalWhileInFlight ==
  \A c \in inflight :
    /\ c.job \in DOMAIN processing
    /\ \A id \in DOMAIN processing : id = c.job

\* the calls in flight for the questions of the current chunk of job id
ChunkCalls(id) ==
  {c \in inflight :
     c.job = id /\ c.q \in ChunkOf(service[id], processing[id].data.questions)}

\* C16 (as claimed): while a chunk is re-executed after a throttled parallel
\* attempt, no two translations of the chunk are in flight together and no
\* question whose parallel translation had finished is translated again.
C16_RetryOnlyRemaining ==
  \A id \in DOMAIN service :
    service[id].mode = "retry" =>
      /\ Cardinality(ChunkCalls(id)) <= 1
      /\ \A c \in ChunkCalls(id) :
           c.attempt = "retry" => c.q \notin service[id].resolved

\* the set of calls holds one for the same question by the same branch
SameCallIn(c, calls) ==
  \E d \in calls : d.job = c.job /\ d.q = c.q /\ d.attempt = c.attempt

\* C18: a chunk that starts while the throttled flag is set runs in the
\* one-by-one branch, in which at most one question of the chunk is in
\* flight, and each further question of the chunk is dispatched out of a
\* sleep of 5 s, longer than the 3 s used between batches when not throttled.
C18_ThrottledChunkOneByOne ==
  [][\A id \in DOMAIN service' :
       LET t == service'[id]
       IN /\ ((id \notin DOMAIN service \/ t.i # service[id].i)
                /\ t.phase = "batches" /\ t.rateLimitState.isRateLimited)
               => t.mode = "sequential"
          /\ t.mode = "sequential" => Cardinality(ChunkCalls(id)') <= 1
          /\ \A c \in inflight' :
               (c.job = id /\ c.attempt = "sequential" /\ c.q > t.i + 1
                  /\ ~SameCallIn(c, inflight)) =>
                 /\ service[id].wait = QuestionDelay
                 /\ QuestionDelay > BatchDelay]_vars

\* the second chunk of a job of 5 questions started throttled and its second
\* question is in flight, alone
C18_Witness ==
  \E id \in DOMAIN service :
    /\ service[id].mode = "sequential"
    /\ service[id].rateLimitState.isRateLimited
    /\ service[id].i = 3
    /\ service[id].cur = 5
    /\ \E c \in inflight : c.job = id /\ c.q = 5 /\ c.attempt = "sequential"

\* C20: the throttled flag of a rate-limit state is cleared only by a step in
\* which a provider call succeeds more than 30 seconds after the most recent
\* throttle event, and every throttle event sets the flag and restarts the
\* cool-down.
C20_ClearedOnlyAfterCoolDown ==
  [][\A id \in DOMAIN service \cap DOMAIN service' :
       LET r == service[id].rateLimitState
           t == service'[id].rateLimitState
       IN /\ (r.isRateLimited /\ ~t.isRateLimited) =>
               /\ last'.op = "processPrompt"
               /\ last'.id = id
               /\ last'.ret = "text"
               /\ throttled'[id] = throttled[id]
               /\ clock - throttled[id].at > CoolDownSeconds
          /\ throttled'[id].count > throttled[id].count =>
               /\ t.isRateLimited
               /\ throttled'[id].at = clock
               /\ t.lastRateLimitTime = clock]_vars

\* throttled at 0 and again at 30; a success at 31 did not clear the flag and
\* the success at 61 has
C20_Witness ==
  \E id \in DOMAIN service :
    /\ ~service[id].rateLimitState.isRateLimited
    /\ service[id].rateLimitState.rateLimitCount = 2
    /\ throttled[id].at = 30
    /\ clock = 61
    /\ last.op = "processPrompt"
    /\ last.ret = "text"

\* the set of calls holds one that is still in the translateWithLLM call
\* that c is in
SameAttemptIn(c, calls) ==
  \E d \in calls :
    /\ d.job = c.job /\ d.q = c.q /\ d.attempt = c.attempt
    /\ d.fanout = c.fanout /\ d.method = c.method

\* C21: a translateWithLLM call makes a provider attempt only while fewer
\* than maxRetries = 3 of its attempts were throttled; a throttled attempt
\* is counted and the same call goes on; an attempt that fails with another
\* error ends the call at once; after maxRetries throttled attempts the call
\* makes no further attempt and ends with its error handed to its caller.
C21_AtMostMaxRetriesAttempts ==
  [][\A c \in inflight \ inflight' :
       /\ last'.op = "processPrompt" => c.retries < maxRetries
       /\ (last'.op = "processPrompt" /\ last'.ret = "429") =>
            [c EXCEPT !.retries = c.retries + 1] \in inflight'
       /\ (last'.op = "processPrompt" /\ last'.ret = "error") =>
            ~SameAttemptIn(c, inflight' \ inflight)
       /\ c.retries = maxRetries =>
            /\ last'.op # "processPrompt"
            /\ ~SameAttemptIn(c, inflight' \ inflight)]_vars

\* the third attempt of a translateWithLLM call has just been throttled
C21_Witness ==
  /\ last.op = "processPrompt"
  /\ last.ret = "429"
  /\ \E c \in inflight : c.retries = maxRetries

\* in this step the awaited call c fails for good: its provider call failed
\* with an error that is no rate limit error after the batch method had
\* already failed, or it ran out of retries in its last fallback and no
\* retry of the chunk follows
FailsHard(c) ==
  /\ c.job \in DOMAIN service
  /\ IsLive(c, service[c.job], processing[c.job].data.questions)
  /\ c.method # "batch"
  /\ \/ last'.op = "processPrompt" /\ last'.ret = "error"
     \/ c.retries = maxRetries /\ ~c.fanout /\ c.attempt # "parallel"

\* C22: when a translation of a questions job fails for good, the job is
\* failed in that step and none of its questions has been written out or
\* sent to the update API, whatever was translated before; questions are
\* handed to the file and the update API only once every question of the job
\* is translated.
C22_NothingPersistedOnHardFailure ==
  [][/\ \A c \in inflight \ inflight' :
          FailsHard(c) =>
            /\ c.job \in DOMAIN failed'
            /\ c.job \notin DOMAIN completed' \cup DOMAIN processing'
            /\ outcome'[c.job].sent = 0
     /\ \A id \in DOMAIN failed' :
          failed'[id].error \in {RateLimitMessage, OtherMessage} =>
            outcome'[id].sent = 0
     /\ \A id \in DOMAIN service' :
          service'[id].phase = "persist" =>
            service'[id].translated = processing'[id].data.questions
     /\ \A id \in Ids :
          outcome'[id].sent > 0 =>
            outcome'[id].sent = outcome'[id].translated]_vars

\* the parallel attempt at a job of 2 questions was throttled out, the retry
\* translated question 1, and then question 2 ran out of retries in the
\* retry as well: the job is failed and nothing was handed on
C22_Witness ==
  \E id \in DOMAIN failed :
    /\ failed[id].error = RateLimitMessage
    /\ outcome[id].translated = 1
    /\ outcome[id].sent = 0

\* the target languages (as indices) the question arrived with a translation
\* for
AlreadyTranslated ==
  {k \in 1..Len(question.targetLanguages) :
     findTranslation(question.input, question.targetLanguages[k]) # 0}

\* the translations of language lang on the question returned
ReturnedFor(lang) ==
  {question.newTranslations[j] : j \in
     {i \in 1..Len(question.newTranslations) :
        question.newTranslations[i].languageCode = lang}}

C24_AtMostOneLoop == loops <= 1

\* C25: a job for which cancelRequest has returned true was never passed to
\* processItem and is in no store and not in the queue, so getStatus finds
\* nothing for its id, from the cancel on.
C25_CancelledNeverExecuted ==
  \A id \in Ids :
    removed[id] = "cancelled" =>
      /\ admitted[id] = 0
      /\ id \notin DOMAIN service
      /\ id \notin DOMAIN processing \cup DOMAIN completed \cup DOMAIN failed
      /\ id \notin QueueIds(queue)
      /\ getStatus(id) = "null"

\* a job was cancelled while it waited behind a running job, and a job
\* submitted after it has been admitted and has completed since
C25_Witness ==
  \E id \in Ids :
    /\ removed[id] = "cancelled"
    /\ \E j \in DOMAIN completed : j > id
    /\ \E j \in DOMAIN completed \cup DOMAIN failed : j < id

\* the queue is a block of high priority jobs followed by a block of normal
\* priority jobs, the latter in submission order
HighThenNormal(q) ==
  \A j, k \in 1..Len(q) :
    j < k =>
      /\ q[j].priority = "normal" => q[k].priority = "normal"
      /\ (q[j].priority = "normal" /\ q[k].priority = "normal") =>
           q[j].id < q[k].id

\* C26: the pending queue is always a block of high priority jobs followed
\* by a block of normal priority jobs; a normal priority job is admitted
\* only when no high priority job is pending, and only when no normal
\* priority job submitted before it is pending.
C26_HighBlockThenNormalBlock ==
  [][/\ HighThenNormal(queue')
     /\ \A id \in Ids :
          (admitted'[id] = admitted[id] + 1
             /\ Head(queue).priority = "normal") =>
            /\ Head(queue).id = id
            /\ \A k \in 1..Len(queue) :
                 /\ queue[k].priority = "normal"
                 /\ queue[k].id >= id]_vars

\* a high priority job is being processed while a normal priority job
\* submitted before it still waits, behind another high priority job
C26_Witness ==
  /\ Len(queue) = 2
  /\ queue[1].priority = "high"
  /\ queue[2].priority = "normal"
  /\ \E id \in DOMAIN processing :
       processing[id].priority = "high" /\ id > queue[2].id

\* the record kept for job id, in whichever store holds it
RecordOf(c, f, id) == IF id \in DOMAIN c THEN c[id] ELSE f[id]

C28_OneResultPerQuestionInOrder ==
  \A id \in DOMAIN service :
    service[id].phase = "persist" =>
      /\ service[id].translatedQuestions =
           [k \in 1..processing[id].data.questions |-> k]
      /\ service[id].translated = Len(service[id].translatedQuestions)

\* a job of 4 questions has been translated: its first chunk in parallel,
\* then again question by question after a call had run out of retries, its
\* second chunk in the one-by-one branch, the throttled flag being set
C28_Witness ==
  \E id \in DOMAIN service :
    /\ service[id].phase = "persist"
    /\ processing[id].data.questions = 4
    /\ Len(service[id].translatedQuestions) = 4
    /\ throttled[id].exhausted
    /\ service[id].rateLimitState.isRateLimited

\* C29 (as claimed): translateSingleQuestion never loses a translation: every
\* language the question carried before the call, the source language and
\* languages outside targetLanguages included, still has its translation on
\* the question returned, in every path.
C29_KeepsExistingTranslations ==
  question.state = "returned" =>
    \A e \in 1..Len(question.input) :
      ReturnedFor(question.input[e].languageCode) # {}

\* C30: whenever other code can run, the counter currentlyProcessing is the
\* number of entries of the processing store and is not negative, whether
\* the jobs admitted so far succeeded, failed or had an unknown type, and with
\* the polling loop stopped and started again from outside.
C30_CounterIsStoreSize ==
  /\ currentlyProcessing = Cardinality(DOMAIN processing)
  /\ currentlyProcessing >= 0

\* a job has just succeeded after a job of a known type and a job of an
\* unknown type had failed, and the counter is back at 0
C30_Witness ==
  /\ last.op = "finish"
  /\ last.ret = "completed"
  /\ \E a \in DOMAIN failed : failed[a].type = "other"
  /\ \E b \in DOMAIN failed : failed[b].type \in SimpleTypes
  /\ currentlyProcessing = 0

====
